---- MODULE Spec2Model ----
(***************************************************************************)
(* The POST handler of the login route (app/routes/login.tsx, `action`)    *)
(* and its helper `isEmailVerified`, as a state machine.  One execution of *)
(* the handler is followed from the form submission to the response (or to *)
(* the exception that leaves the handler); every awaited collaborator call *)
(* is a step whose outcome (a return value or a thrown error) is chosen    *)
(* nondeterministically.                                                   *)
(***************************************************************************)
EXTENDS Naturals, Sequences, FiniteSets

VARIABLES pc, form, session, verifierResult, verifiedStatus, caught, trace, response

vars == <<pc, form, session, verifierResult, verifiedStatus, caught, trace, response>>

(***************************************************************************)
(* Bounds and value sets                                                   *)
(***************************************************************************)
MaxLen == 3

\* characters of a submitted email: an ordinary character, the at sign, and
\* a line terminator (which `.` of the pattern does not match)
Alphabet == {"a", "@", "\n"}

Strings == UNION {[1..k -> Alphabet] : k \in 0..MaxLen}

\* a session field that holds no value (session.get returns undefined)
Unset == <<>>

\* what formData.get(name) can return: null, a File, or a string
FormEntries(strs) ==
    {[kind |-> "null", value |-> <<>>], [kind |-> "file", value |-> <<>>]}
        \cup {[kind |-> "string", value |-> s] : s \in strs}

PasswordStrings == {<<>>, <<"a">>}

\* messages the email verifier can report, links the token sender can return
VerifierMessages == {"Mailbox does not exist", "Domain has no MX record"}
MagicLinks == {"https://host/magic?token=1"}
SendErrors == {"Unable to send email", "Token could not be created"}
HeaderErrors == {"Unable to commit session"}

\* the session decoded from the request's cookie
CookieSessions ==
    [email : {Unset, <<"a", "@", "a">>},
     error : {Unset, <<"earlier error">>},
     magicLink : {Unset, <<"https://host/magic?token=0">>}]

Error(source, message) == [source |-> source, message |-> message]
NoError == Error("", "")

NoHeaders == [set |-> FALSE, cookie |-> [email |-> Unset, error |-> Unset, magicLink |-> Unset]]
NoResponse == [kind |-> "none", status |-> 0, location |-> "", headers |-> NoHeaders, error |-> NoError]

(***************************************************************************)
(* Pure helpers                                                            *)
(***************************************************************************)
\* a pattern that only asks for an "@" somewhere (/@/)
EmailMatches_AnyAt(s) == \E i \in 1..Len(s) : s[i] = "@"

\* emailAddress.match(/.+@.+/): some "@" directly preceded and directly
\* followed by a character other than a line terminator
EmailMatches(s) ==
    \E i \in 2..(Len(s) - 1) : s[i] = "@" /\ s[i - 1] # "\n" /\ s[i + 1] # "\n"

\* typeof emailAddress === 'string'
IsString(entry) == entry.kind = "string"

\* a honeypot test that only recognises a non-empty string
FailedHoneypot_StringsOnly(entry) == entry.kind = "string" /\ entry.value # <<>>

\* Boolean(formData.get('password'))
FailedHoneypot(entry) ==
    \/ entry.kind = "file"
    \/ entry.kind = "string" /\ entry.value # <<>>

\* the template literal of the not-verified message, as its parts
VerifyErrorMessage(message) ==
    <<"I tried to verify that email and got this error message: \"", message,
      "\". If you think this is wrong, sign up for Kent's mailing list first (using the form on the bottom of the page) and once that's confirmed you'll be able to sign up.">>

InvalidEmailMessage == <<"A valid email is required">>

getErrorMessage(e) == <<e.message>>

\* the session object's mutators
setEmail(s, email) == [s EXCEPT !.email = email]
flashError(s, message) == [s EXCEPT !.error = message]
setMagicLink(s, link) == [s EXCEPT !.magicLink = <<link>>]

\* loginSession.getHeaders(): the session serialized into a Set-Cookie header
getHeaders(s) == [set |-> TRUE, cookie |-> s]

\* redirect(`/login`, {status, headers}); the framework's default status is 302
redirect(location, status, headers) ==
    [kind |-> "redirect", status |-> status, location |-> location,
     headers |-> headers, error |-> NoError]

Uncaught(e) == [NoResponse EXCEPT !.kind = "exception", !.error = e]

\* one entry of the call trace: the operation, its source line, its outcome
\* and the value it returned or the message it threw
Ev(op, at, out, detail) == [op |-> op, at |-> at, out |-> out, detail |-> detail]

Outcomes == {"returned", "threw"}

(***************************************************************************)
(* Initial state: a form submission and the cookie's session               *)
(***************************************************************************)
Init ==
    /\ pc = "start"
    /\ form \in [email : FormEntries(Strings), password : FormEntries(PasswordStrings)]
    /\ session \in CookieSessions
    /\ verifierResult = [status |-> "none", message |-> ""]
    /\ verifiedStatus = [verified |-> "none", message |-> ""]
    /\ caught = NoError
    /\ trace = <<>>
    /\ response = NoResponse

(***************************************************************************)
(* The action handler, one step per awaited call                           *)
(***************************************************************************)
\* lines 75-76: read the form and the login session
GetLoginInfoSession ==
    /\ pc = "start"
    /\ \E out \in Outcomes :
        /\ trace' = Append(trace, Ev("getLoginInfoSession", 76, out, ""))
        /\ IF out = "returned"
           THEN pc' = "parse" /\ UNCHANGED response
           ELSE /\ pc' = "threw"
                /\ response' = Uncaught(Error("getLoginInfoSession", "Unable to read session"))
    /\ UNCHANGED <<form, session, verifierResult, verifiedStatus, caught>>

\* lines 78-88: the email field must be a string; it is stored in the session
\* when non-empty; a string that does not match the pattern ends the request
ParseEmail ==
    /\ pc = "parse"
    /\ IF ~IsString(form.email)
       THEN /\ pc' = "threw"
            /\ response' = Uncaught(Error("invariant", "Form submitted incorrectly"))
            /\ trace' = Append(trace, Ev("invariant", 79, "threw", ""))
            /\ UNCHANGED session
       ELSE LET emailAddress == form.email.value
                s1 == IF emailAddress # <<>> THEN setEmail(session, emailAddress) ELSE session
                s2 == flashError(s1, InvalidEmailMessage)
            IN  IF ~EmailMatches(emailAddress)
                THEN /\ session' = s2
                     /\ \E h \in Outcomes :
                          /\ trace' = trace \o <<Ev("flashError", 83, "returned", ""),
                                                 Ev("getHeaders", 86, h, "")>>
                          /\ IF h = "returned"
                             THEN /\ pc' = "done"
                                  /\ response' = redirect("/login", 400, getHeaders(s2))
                             ELSE /\ pc' = "threw"
                                  /\ \E m \in HeaderErrors :
                                       response' = Uncaught(Error("getHeaders", m))
                ELSE /\ session' = s1
                     /\ pc' = "honeypot"
                     /\ UNCHANGED <<trace, response>>
    /\ UNCHANGED <<form, verifierResult, verifiedStatus, caught>>

\* lines 90-100: a filled password field ends the request with a plain redirect
Honeypot ==
    /\ pc = "honeypot"
    /\ IF FailedHoneypot(form.password)
       THEN \E h \in Outcomes :
              /\ trace' = Append(trace, Ev("getHeaders", 98, h, ""))
              /\ IF h = "returned"
                 THEN /\ pc' = "done"
                      /\ response' = redirect("/login", 302, getHeaders(session))
                 ELSE /\ pc' = "threw"
                      /\ \E m \in HeaderErrors :
                           response' = Uncaught(Error("getHeaders", m))
       ELSE /\ pc' = "verify"
            /\ UNCHANGED <<trace, response>>
    /\ UNCHANGED <<form, session, verifierResult, verifiedStatus, caught>>

\* lines 137-138: the email verifier
VerifyEmailAddress ==
    /\ pc = "verify"
    /\ \/ /\ verifierResult' = [status |-> "true", message |-> ""]
          /\ verifiedStatus' = [verified |-> "true", message |-> ""]
          /\ trace' = Append(trace, Ev("verifyEmailAddress", 137, "verified", ""))
          /\ pc' = "checkVerified"
          /\ UNCHANGED caught
       \/ \E m \in VerifierMessages :
          /\ verifierResult' = [status |-> "false", message |-> m]
          /\ trace' = Append(trace, Ev("verifyEmailAddress", 137, "notVerified", m))
          /\ pc' = "findUser"
          /\ UNCHANGED <<verifiedStatus, caught>>
       \/ /\ trace' = Append(trace, Ev("verifyEmailAddress", 137, "threw", ""))
          /\ caught' = Error("verifyEmailAddress", "verifier unavailable")
          /\ pc' = "catchVerify"
          /\ UNCHANGED <<verifierResult, verifiedStatus>>
    /\ UNCHANGED <<form, session, response>>

\* lines 139-145: does a user with this email exist
FindUser ==
    /\ pc = "findUser"
    /\ \/ /\ trace' = Append(trace, Ev("findUnique", 140, "found", ""))
          /\ verifiedStatus' = [verified |-> "true", message |-> ""]
          /\ pc' = "checkVerified"
          /\ UNCHANGED caught
       \/ /\ trace' = Append(trace, Ev("findUnique", 140, "missing", ""))
          /\ pc' = "convertKit"
          /\ UNCHANGED <<verifiedStatus, caught>>
       \/ /\ trace' = Append(trace, Ev("findUnique", 140, "threw", ""))
          /\ caught' = Error("findUnique", "database unavailable")
          /\ pc' = "catchVerify"
          /\ UNCHANGED verifiedStatus
    /\ UNCHANGED <<form, session, verifierResult, response>>

\* lines 146-149: is the email a mailing-list subscriber
GetConvertKitSubscriber ==
    /\ pc = "convertKit"
    /\ \/ /\ trace' = Append(trace, Ev("getConvertKitSubscriber", 146, "found", ""))
          /\ verifiedStatus' = [verified |-> "true", message |-> ""]
          /\ pc' = "checkVerified"
          /\ UNCHANGED caught
       \/ /\ trace' = Append(trace, Ev("getConvertKitSubscriber", 146, "missing", ""))
          /\ verifiedStatus' = [verified |-> "false", message |-> verifierResult.message]
          /\ pc' = "checkVerified"
          /\ UNCHANGED caught
       \/ /\ trace' = Append(trace, Ev("getConvertKitSubscriber", 146, "threw", ""))
          /\ caught' = Error("getConvertKitSubscriber", "mailing list unavailable")
          /\ pc' = "catchVerify"
          /\ UNCHANGED verifiedStatus
    /\ UNCHANGED <<form, session, verifierResult, response>>

\* a handler that does not look at the verified status
CheckVerified_IgnoresStatus ==
    /\ pc = "checkVerified"
    /\ pc' = "send"
    /\ UNCHANGED <<form, session, verifierResult, verifiedStatus, caught, trace, response>>

\* lines 103-111: a not-verified status is flashed and ends the request; the
\* headers call is inside the try block, so its failure goes to the catch
CheckVerified ==
    /\ pc = "checkVerified"
    /\ IF verifiedStatus.verified = "false"
       THEN LET s1 == flashError(session, VerifyErrorMessage(verifiedStatus.message))
            IN  /\ session' = s1
                /\ \E h \in Outcomes :
                     /\ trace' = trace \o <<Ev("flashError", 106, "returned", ""),
                                            Ev("getHeaders", 109, h, "")>>
                     /\ IF h = "returned"
                        THEN /\ pc' = "done"
                             /\ response' = redirect("/login", 400, getHeaders(s1))
                             /\ UNCHANGED caught
                        ELSE /\ pc' = "catchVerify"
                             /\ \E m \in HeaderErrors : caught' = Error("getHeaders", m)
                             /\ UNCHANGED response
       ELSE /\ pc' = "send"
            /\ UNCHANGED <<session, trace, response, caught>>
    /\ UNCHANGED <<form, verifierResult, verifiedStatus>>

\* a catch block that treats a verification failure like a send failure
CatchVerify_FailsClosed ==
    /\ pc = "catchVerify"
    /\ pc' = "catchSend"
    /\ UNCHANGED <<form, session, verifierResult, verifiedStatus, caught, trace, response>>

\* lines 112-116: the error is logged and the handler continues
CatchVerify ==
    /\ pc = "catchVerify"
    /\ pc' = "send"
    /\ caught' = NoError
    /\ UNCHANGED <<form, session, verifierResult, verifiedStatus, trace, response>>

\* lines 119-121: send the token and store the magic link
SendToken ==
    /\ pc = "send"
    /\ \/ \E link \in MagicLinks :
          /\ session' = setMagicLink(session, link)
          /\ trace' = trace \o <<Ev("sendToken", 120, "returned", link),
                                 Ev("setMagicLink", 121, "returned", "")>>
          /\ pc' = "respond"
          /\ UNCHANGED caught
       \/ \E m \in SendErrors :
          /\ trace' = Append(trace, Ev("sendToken", 120, "threw", m))
          /\ caught' = Error("sendToken", m)
          /\ pc' = "catchSend"
          /\ UNCHANGED session
    /\ UNCHANGED <<form, verifierResult, verifiedStatus, response>>

\* lines 122-124: the plain redirect; the headers call is inside the try block
SuccessRedirect ==
    /\ pc = "respond"
    /\ \E h \in Outcomes :
         /\ trace' = Append(trace, Ev("getHeaders", 123, h, ""))
         /\ IF h = "returned"
            THEN /\ pc' = "done"
                 /\ response' = redirect("/login", 302, getHeaders(session))
                 /\ UNCHANGED caught
            ELSE /\ pc' = "catchSend"
                 /\ \E m \in HeaderErrors : caught' = Error("getHeaders", m)
                 /\ UNCHANGED response
    /\ UNCHANGED <<form, session, verifierResult, verifiedStatus>>

\* a catch block that lets the error leave the handler
CatchSend_Rethrows ==
    /\ pc = "catchSend"
    /\ pc' = "threw"
    /\ response' = Uncaught(caught)
    /\ UNCHANGED <<form, session, verifierResult, verifiedStatus, caught, trace>>

\* a catch block that forgets the status override
CatchSend_PlainRedirect ==
    /\ pc = "catchSend"
    /\ LET s1 == flashError(session, getErrorMessage(caught))
       IN  /\ session' = s1
           /\ caught' = NoError
           /\ trace' = trace \o <<Ev("flashError", 126, "returned", ""),
                                  Ev("getHeaders", 129, "returned", "")>>
           /\ pc' = "done"
           /\ response' = redirect("/login", 302, getHeaders(s1))
    /\ UNCHANGED <<form, verifierResult, verifiedStatus>>

\* lines 125-131: the error's message is flashed and the request ends with 400
CatchSend ==
    /\ pc = "catchSend"
    /\ LET s1 == flashError(session, getErrorMessage(caught))
       IN  /\ session' = s1
           /\ caught' = NoError
           /\ \E h \in Outcomes :
                /\ trace' = trace \o <<Ev("flashError", 126, "returned", ""),
                                       Ev("getHeaders", 129, h, "")>>
                /\ IF h = "returned"
                   THEN /\ pc' = "done"
                        /\ response' = redirect("/login", 400, getHeaders(s1))
                   ELSE /\ pc' = "threw"
                        /\ \E m \in HeaderErrors :
                             response' = Uncaught(Error("getHeaders", m))
    /\ UNCHANGED <<form, verifierResult, verifiedStatus>>

Next ==
    \/ GetLoginInfoSession
    \/ ParseEmail
    \/ Honeypot
    \/ VerifyEmailAddress
    \/ FindUser
    \/ GetConvertKitSubscriber
    \/ CheckVerified
    \/ CatchVerify
    \/ SendToken
    \/ SuccessRedirect
    \/ CatchSend

Spec == Init /\ [][Next]_vars

(***************************************************************************)
(* Reading the trace                                                       *)
(***************************************************************************)
Happened(op) == \E i \in DOMAIN trace : trace[i].op = op
Count(op) == Cardinality({i \in DOMAIN trace : trace[i].op = op})
OutcomeOf(op, out) == \E i \in DOMAIN trace : trace[i].op = op /\ trace[i].out = out
HappenedAt(op, at, out) ==
    \E i \in DOMAIN trace : trace[i].op = op /\ trace[i].at = at /\ trace[i].out = out
DetailOf(op) == {trace[i].detail : i \in {j \in DOMAIN trace : trace[j].op = op}}
Index(op) == CHOOSE i \in DOMAIN trace : trace[i].op = op

ErrorFlashed == Happened("flashError")
MagicLinkSet == Happened("setMagicLink")
Completed == pc = "done"
Contains(message, part) == \E i \in DOMAIN message : message[i] = part

\* the collaborators of the verification step and the token sender
Verifiers == {"verifyEmailAddress", "findUnique", "getConvertKitSubscriber"}

\* the submitted email is a string in which no "@" has text on both sides
EmailLacksAtWithBothSides ==
    /\ form.email.kind = "string"
    /\ ~ \E i \in DOMAIN form.email.value :
           form.email.value[i] = "@" /\ i > 1 /\ i < Len(form.email.value)

\* the submitted password field is filled (a non-empty string or a file)
PasswordFilled ==
    \/ form.password.kind = "file"
    \/ form.password.kind = "string" /\ Len(form.password.value) > 0

\* the verifier said not-verified and both fallbacks found nothing
UltimatelyUnverified ==
    /\ OutcomeOf("verifyEmailAddress", "notVerified")
    /\ OutcomeOf("findUnique", "missing")
    /\ OutcomeOf("getConvertKitSubscriber", "missing")

\* the try block of the verification step was left by an exception
VerificationStepThrew ==
    \/ OutcomeOf("verifyEmailAddress", "threw")
    \/ OutcomeOf("findUnique", "threw")
    \/ OutcomeOf("getConvertKitSubscriber", "threw")
    \/ HappenedAt("getHeaders", 109, "threw")

VerificationStepVerified ==
    \/ OutcomeOf("verifyEmailAddress", "verified")
    \/ OutcomeOf("findUnique", "found")
    \/ OutcomeOf("getConvertKitSubscriber", "found")

C2_InvalidEmailRejected ==
    EmailLacksAtWithBothSides =>
        /\ \A op \in Verifiers \cup {"sendToken"} : ~Happened(op)
        /\ pc \in {"start", "parse", "done", "threw"}
        /\ Completed =>
             /\ response.kind = "redirect"
             /\ response.status = 400
             /\ session.error = InvalidEmailMessage
             /\ response.headers.cookie.error = InvalidEmailMessage

\* C2 witness: the email "a@" was answered
C2_Witness ==
    /\ Completed
    /\ EmailLacksAtWithBothSides
    /\ form.email.value = <<"a", "@">>
    /\ response.status = 400

(***************************************************************************)
(* C3                                                                      *)
(***************************************************************************)
\* C3 as stated: with a filled password field, whatever the email field
\* holds, no verification collaborator is called, no magic link is set, and
\* the response is a redirect to /login with no error flashed and no 400.
C3_HoneypotAnyEmail ==
    PasswordFilled =>
        /\ \A op \in Verifiers : ~Happened(op)
        /\ ~MagicLinkSet
        /\ Completed =>
             /\ response.kind = "redirect"
             /\ response.location = "/login"
             /\ response.status # 400
             /\ ~ErrorFlashed

\* C3 amended: with a filled password field no verification collaborator and
\* no token sender is called and no magic link is set; the response is a
\* redirect to /login with no error flashed and no 400 when the email passes
\* the format check, which comes first: an email that fails it is answered
\* with 400 and 'A valid email is required'.
C3_HoneypotAfterFormatCheck ==
    PasswordFilled =>
        /\ \A op \in Verifiers \cup {"sendToken"} : ~Happened(op)
        /\ ~MagicLinkSet
        /\ session.magicLink \notin {<<l>> : l \in MagicLinks}
        /\ Completed =>
             /\ response.kind = "redirect"
             /\ response.location = "/login"
             /\ IF EmailMatches(form.email.value)
                THEN response.status = 302 /\ ~ErrorFlashed
                ELSE response.status = 400 /\ session.error = InvalidEmailMessage

\* C3 witness: a well-formed email with a file in the password field
C3_Witness ==
    /\ Completed
    /\ form.password.kind = "file"
    /\ form.email.kind = "string"
    /\ EmailMatches(form.email.value)
    /\ response.status = 302

(***************************************************************************)
(* C4                                                                      *)
(***************************************************************************)
\* C4: when the verifier reports not-verified, no user is found and no
\* subscriber is found, the response is a redirect with status 400 whose
\* flashed error contains the verifier's message, the token sender is never
\* called and no magic link is set.
C4_UnverifiedRejected ==
    UltimatelyUnverified =>
        /\ ~Happened("sendToken")
        /\ ~MagicLinkSet
        /\ Completed =>
             /\ response.kind = "redirect"
             /\ response.status = 400
             /\ \A m \in DetailOf("verifyEmailAddress") : Contains(session.error, m)

(***************************************************************************)
(* C5                                                                      *)
(***************************************************************************)
\* C5: when the call to the verifier throws, no error is flashed for that
\* cause, the token sender is called as if the email were verified, and the
\* response is a 400 only if the token sender itself then fails.
C5_VerifierThrowFailsOpen ==
    OutcomeOf("verifyEmailAddress", "threw") =>
        /\ \A i \in DOMAIN trace : trace[i].op = "flashError" => trace[i].at = 126
        /\ pc \notin {"catchVerify", "send"} => Count("sendToken") = 1
        /\ (Completed /\ response.status = 400) => OutcomeOf("sendToken", "threw")

(***************************************************************************)
(* C6                                                                      *)
(***************************************************************************)
\* C6: when the action completes after the token sender returned, the
\* session carries the submitted email and the returned magic link, no error
\* is flashed and the response is a redirect to /login without the 400
\* override; a magic link is set only after the token sender returned.
C6_SuccessPath ==
    /\ (Completed /\ OutcomeOf("sendToken", "returned")) =>
         /\ session.email = form.email.value
         /\ \A l \in DetailOf("sendToken") : session.magicLink = <<l>>
         /\ ~ErrorFlashed
         /\ response.kind = "redirect"
         /\ response.location = "/login"
         /\ response.status = 302
    /\ MagicLinkSet => OutcomeOf("sendToken", "returned")

(***************************************************************************)
(* C7                                                                      *)
(***************************************************************************)
\* C7: when the token sender throws, the error's message is flashed, no
\* magic link is set, the response is a redirect to /login with status 400,
\* and the token sender is not called again.
C7_SendFailureIsTerminal ==
    OutcomeOf("sendToken", "threw") =>
        /\ Count("sendToken") = 1
        /\ ~MagicLinkSet
        /\ pc \in {"catchSend", "done", "threw"}
        /\ Completed =>
             /\ response.kind = "redirect"
             /\ response.location = "/login"
             /\ response.status = 400
             /\ HappenedAt("flashError", 126, "returned")
             /\ \A m \in DetailOf("sendToken") :
                  /\ session.error = <<m>>
                  /\ response.headers.cookie.error = <<m>>

\* C7 witness: the verifier verified the email and the token sender threw
C7_Witness ==
    /\ Completed
    /\ OutcomeOf("verifyEmailAddress", "verified")
    /\ OutcomeOf("sendToken", "threw")
    /\ response.status = 400

C9_StatusMatchesFlash ==
    Completed =>
        /\ (response.status = 400) <=> ErrorFlashed
        /\ MagicLinkSet => ~ErrorFlashed

(***************************************************************************)
(* C10                                                                     *)
(***************************************************************************)
\* C10: when the verifier reports not-verified and the user lookup or the
\* mailing-list lookup then throws, the exception is swallowed: no error is
\* flashed for it, the token sender is called for that email, and a 400 can
\* only come from the send step.
C10_LookupThrowFailsOpen ==
    (OutcomeOf("findUnique", "threw") \/ OutcomeOf("getConvertKitSubscriber", "threw")) =>
        /\ OutcomeOf("verifyEmailAddress", "notVerified")
        /\ \A i \in DOMAIN trace : trace[i].op = "flashError" => trace[i].at = 126
        /\ pc \notin {"catchVerify", "send"} => Count("sendToken") = 1
        /\ ErrorFlashed =>
             OutcomeOf("sendToken", "threw") \/ HappenedAt("getHeaders", 123, "threw")
        /\ (Completed /\ response.status = 400) =>
             OutcomeOf("sendToken", "threw") \/ HappenedAt("getHeaders", 123, "threw")
        /\ pc = "threw" => HappenedAt("getHeaders", 129, "threw")

\* C10 witness: the mailing-list lookup threw and the magic link was sent
C10_Witness ==
    /\ Completed
    /\ OutcomeOf("getConvertKitSubscriber", "threw")
    /\ OutcomeOf("sendToken", "returned")
    /\ response.status = 302

====
